---- MODULE Spec2Model ----
(***************************************************************************)
(* Lie subalgebras of a finite dimensional Lie algebra with basis          *)
(* (sage/algebras/lie_algebras/subalgebra.py).                             *)
(*                                                                         *)
(* Scalars are exact rationals <<numerator, denominator>> in lowest terms  *)
(* with a positive denominator; over the integers every denominator is 1.  *)
(* Vectors are sequences of scalars in the coordinates of the ambient      *)
(* basis.  A submodule is held as its echelonized basis: the reduced row   *)
(* echelon form over a field, the Hermite normal form over the integers.   *)
(***************************************************************************)
EXTENDS Integers, Sequences, FiniteSets, TLC

(***************************************************************************)
(* Bounds of the model.                                                    *)
(***************************************************************************)
\* largest coefficient of a generator c*e_i offered to a constructor
MaxCoef == 2
\* how many subalgebra objects the cache holds in the cache specification
MaxObjs == 2

(***************************************************************************)
(* Scalars.                                                                *)
(***************************************************************************)
Abs(a) == IF a < 0 THEN -a ELSE a

RECURSIVE Gcd(_, _)
Gcd(a, b) == IF b = 0 THEN a ELSE Gcd(b, a % b)

Q(n, d) ==
    IF d = 1 THEN <<n, 1>>
    ELSE LET s == IF d < 0 THEN -1 ELSE 1
             g == Gcd(Abs(n), Abs(d))
         IN  <<(s * n) \div g, (s * d) \div g>>

RZero == <<0, 1>>
ROne == <<1, 1>>
RInt(k) == <<k, 1>>
RAdd(a, b) == Q(a[1] * b[2] + b[1] * a[2], a[2] * b[2])
RNeg(a) == <<-a[1], a[2]>>
RSub(a, b) == RAdd(a, RNeg(b))
RMul(a, b) == Q(a[1] * b[1], a[2] * b[2])
RDiv(a, b) == Q(a[1] * b[2], a[2] * b[1])
RIsZero(a) == a[1] = 0
RIsInt(a) == a[2] = 1
\* floor(a / b) for integral a and integral b > 0
RFloorDiv(a, b) == <<a[1] \div b[1], 1>>

(***************************************************************************)
(* Vectors of the ambient coordinate space.                                *)
(***************************************************************************)
VZero(n) == [i \in 1..n |-> RZero]
VUnit(n, k) == [i \in 1..n |-> IF i = k THEN ROne ELSE RZero]
VAdd(v, w) == [i \in 1..Len(v) |-> RAdd(v[i], w[i])]
VScale(c, v) == [i \in 1..Len(v) |-> RMul(c, v[i])]
VSub(v, w) == [i \in 1..Len(v) |-> RSub(v[i], w[i])]
VIsZero(v) == \A i \in 1..Len(v) : RIsZero(v[i])
\* position of the first nonzero entry, 0 for the zero vector
Lead(v) ==
    IF VIsZero(v) THEN 0
    ELSE CHOOSE i \in 1..Len(v) :
            /\ ~RIsZero(v[i])
            /\ \A j \in 1..(i - 1) : RIsZero(v[j])

RECURSIVE LinComb(_, _, _)
\* sum over i of c[i] * B[i], in a space of dimension n
LinComb(c, B, n) ==
    IF Len(B) = 0 THEN VZero(n)
    ELSE VAdd(VScale(Head(c), Head(B)), LinComb(Tail(c), Tail(B), n))

(***************************************************************************)
(* Echelon forms: the free-module services the subalgebra code calls.      *)
(***************************************************************************)
\* the quotient used to reduce entry a by the pivot p > 0
Quot(ring, a, p) == IF ring = "QQ" THEN RDiv(a, p) ELSE RFloorDiv(a, p)

\* make the pivot 1 over a field and positive over the integers
NormPivot(ring, v) ==
    LET p == v[Lead(v)]
    IN  IF ring = "QQ" THEN VScale(RDiv(ROne, p), v)
        ELSE IF p[1] < 0 THEN VScale(RInt(-1), v) ELSE v

RECURSIVE ReducePair(_, _, _, _)
\* rows b and v both lead at column c, b with a normalised pivot: the pair
\* <<b2, v2>> spanning the same module with v2[c] = 0
ReducePair(ring, b, v, c) ==
    IF RIsZero(v[c]) THEN <<b, v>>
    ELSE IF ring = "QQ" THEN <<b, VSub(v, VScale(RDiv(v[c], b[c]), b))>>
    ELSE LET w == NormPivot(ring, v)
         IN  ReducePair(ring, w, VSub(b, VScale(RFloorDiv(b[c], w[c]), w)), c)

RECURSIVE Insert(_, _, _)
\* add the vector v to the staircase basis B (rows ordered by leading column)
Insert(ring, B, v) ==
    IF VIsZero(v) THEN B
    ELSE IF Len(B) = 0 THEN <<NormPivot(ring, v)>>
    ELSE LET b == Head(B)
             cb == Lead(b)
             cv == Lead(v)
         IN  IF cv < cb THEN <<NormPivot(ring, v)>> \o B
             ELSE IF cv > cb THEN <<b>> \o Insert(ring, Tail(B), v)
             ELSE LET p == ReducePair(ring, b, v, cb)
                  IN  <<p[1]>> \o Insert(ring, Tail(B), p[2])

RECURSIVE Staircase(_, _, _)
Staircase(ring, B, vs) ==
    IF Len(vs) = 0 THEN B
    ELSE Staircase(ring, Insert(ring, B, Head(vs)), Tail(vs))

RECURSIVE ReduceRow(_, _, _)
\* reduce the entries of v that stand above the pivots of the rows below
ReduceRow(ring, v, below) ==
    IF Len(below) = 0 THEN v
    ELSE LET b == Head(below)
             c == Lead(b)
         IN  ReduceRow(ring, VSub(v, VScale(Quot(ring, v[c], b[c]), b)),
                       Tail(below))

ReduceAbove(ring, B) ==
    [i \in 1..Len(B) |-> ReduceRow(ring, B[i], SubSeq(B, i + 1, Len(B)))]

\* m.submodule(vectors): the span, held as its echelonized basis
Submodule(ring, vs) == ReduceAbove(ring, Staircase(ring, <<>>, vs))

\* coordinates of v in the echelonized basis B; ok is FALSE when v is not in
\* the module spanned by B over the ring
RECURSIVE Coords(_, _, _)
Coords(ring, B, v) ==
    IF Len(B) = 0 THEN [ok |-> VIsZero(v), c |-> <<>>]
    ELSE LET b == Head(B)
             p == Lead(b)
             q == RDiv(v[p], b[p])
             r == Coords(ring, Tail(B), VSub(v, VScale(q, b)))
         IN  [ok |-> r.ok /\ (ring = "QQ" \/ RIsInt(q)), c |-> <<q>> \o r.c]

CoordinateVector(ring, B, v) == Coords(ring, B, v).c
InModule(ring, B, v) == Coords(ring, B, v).ok
\* N.is_submodule(M) for the module spanned by the rows and the module M
IsSubmodule(ring, rows, B) == \A i \in 1..Len(rows) : InModule(ring, B, rows[i])

(***************************************************************************)
(* The ambient Lie algebras: dimension and structure constants.  An entry  *)
(* <<i, j, k, c>> of sc says that [e_i, e_j] has coefficient c on e_k      *)
(* (and [e_j, e_i] has -c).                                                *)
(***************************************************************************)
\* L.<X,Y,Z> = LieAlgebra(QQ, {('X','Y'): {'Z': 1}})
Heisenberg == [dim |-> 3, sc |-> << <<1, 2, 3, 1>> >>]
\* L.<X,Y,Z> = LieAlgebra(ZZ, {('X','Y'): {'Z': 3}})
Heisenberg3 == [dim |-> 3, sc |-> << <<1, 2, 3, 3>> >>]
\* L.<X,Y,Z,W> = LieAlgebra(R, {('X','Y'): {'Z': 1}, ('X','Z'): {'W': 1}})
Filiform == [dim |-> 4, sc |-> << <<1, 2, 3, 1>>, <<1, 3, 4, 1>> >>]

Ambients ==
    { [ring |-> "QQ", L |-> Heisenberg], [ring |-> "ZZ", L |-> Heisenberg3],
      [ring |-> "QQ", L |-> Filiform], [ring |-> "ZZ", L |-> Filiform] }

CacheAmbients ==
    { [ring |-> "QQ", L |-> Heisenberg], [ring |-> "ZZ", L |-> Filiform] }

RECURSIVE BracketSum(_, _, _, _)
BracketSum(sc, v, w, k) ==
    IF Len(sc) = 0 THEN RZero
    ELSE LET t == Head(sc)
             rest == BracketSum(Tail(sc), v, w, k)
         IN  IF t[3] # k THEN rest
             ELSE RAdd(rest,
                       RMul(RInt(t[4]),
                            RSub(RMul(v[t[1]], w[t[2]]),
                                 RMul(v[t[2]], w[t[1]]))))

\* L.bracket(v, w).to_vector() for coordinate vectors v, w
Bracket(A, v, w) == [k \in 1..A.dim |-> BracketSum(A.sc, v, w, k)]

\* L.basis() as coordinate vectors
AmbientBasis(A) == [k \in 1..A.dim |-> VUnit(A.dim, k)]

(***************************************************************************)
(* The closure computation of basis().                                     *)
(***************************************************************************)
\* [L.bracket(v, w).to_vector() for v in SB for w in SB]
PairBrackets(A, SB) ==
    LET r == Len(SB)
    IN  [k \in 1..(r * r) |->
            Bracket(A, SB[((k - 1) \div r) + 1], SB[((k - 1) % r) + 1])]

\* the generators kept as they are given, as the basis of the first module
InitialModuleAsGiven(rg, gens) == gens

\* sm = m.submodule([X.to_vector() for X in self.lie_algebra_generators()])
InitialModule(rg, gens) == Submodule(rg, gens)

\* a pass that keeps the brackets only, without the previous basis
ClosurePassBracketsOnly(rg, A, SB) == Submodule(rg, PairBrackets(A, SB))

\* one pass of the loop body: sm = m.submodule(sm.basis() + brackets)
ClosurePass(rg, A, SB) == Submodule(rg, SB \o PairBrackets(A, SB))

\* the loop test
LoopGoesOn(SB, dd) == Len(SB) > dd

RECURSIVE ClosureLoop(_, _, _, _)
ClosureLoop(rg, A, SB, dd) ==
    IF LoopGoesOn(SB, dd) THEN ClosureLoop(rg, A, ClosurePass(rg, A, SB), Len(SB))
    ELSE SB

\* the vectors of basis() for a generator tuple, as one function
BasisOf(rg, A, gens) == ClosureLoop(rg, A, InitialModule(rg, gens), 0)

(***************************************************************************)
(* State.                                                                  *)
(*   ring, L   the top-level ambient Lie algebra and its coefficient ring  *)
(*   objs      the subalgebra objects in creation order (the cache of the  *)
(*             unique representation); an object is                        *)
(*             [ambient, gens, cached, basis, passes], ambient 0 standing  *)
(*             for L and k > 0 for the object objs[k]; passes counts the   *)
(*             passes the closure loop made for the cached basis           *)
(*   pc, cur, sm, d, passes   the running call of basis(): its position,   *)
(*             the object it runs for and its locals                       *)
(*   res       the last call made and what it returned or raised           *)
(* An element is [parent, value]: parent 0 for an element of L, k > 0 for  *)
(* an element of objs[k]; value is the wrapped ambient coordinate vector.  *)
(***************************************************************************)
VARIABLES ring, L, objs, pc, cur, sm, d, passes, res

vars == <<ring, L, objs, pc, cur, sm, d, passes, res>>

NoRes ==
    [op |-> "none", obj |-> 0, amb |-> 0, shape |-> "list", items |-> <<>>,
     x |-> <<>>, y |-> <<>>, k |-> 0, ok |-> TRUE, err |-> "",
     val |-> <<>>, coef |-> RZero, mc |-> <<>>, flag |-> FALSE, ret |-> 0,
     parent |-> 0]

Elt(p, v) == [parent |-> p, value |-> v]

(***************************************************************************)
(* Construction: __classcall_private__ and the cache behind it.            *)
(***************************************************************************)
\* if not isinstance(gens, (list, tuple)): gens = [gens]
AsList(shape, gens) == IF shape = "single" THEN <<gens>> ELSE gens

\* the generators kept with their zero entries
KeepZeros(items) == items

\* ... for gen in gens if not gen.is_zero()
DropZeros(items) == SelectSeq(items, LAMBDA g : ~VIsZero(g.value))

\* self.module(): the submodule with the vectors of basis() as its basis
Module(o) == o.basis

\* x in self, for an element x of the ambient Lie algebra
Contains(rg, o, x) == InModule(rg, Module(o), x)

\* ambient(gen): conversion of one generator into the ambient given to the
\* constructor; within a subalgebra an element of L goes through retract
CoerceOk(rg, os, amb, g) ==
    \/ amb = 0
    \/ g.parent = amb
    \/ g.parent = 0 /\ Contains(rg, os[amb], g.value)

\* the element ambient(gen) when the conversion succeeds: an element of L
\* stays, an element of a subalgebra goes to L by the registered lift, and
\* within the subalgebra objs[amb] the result is an element of it
Coerce(amb, g) == Elt(amb, g.value)

\* lift(X): the wrapped value X.value, as the coordinates of an element of L
Lift(e) == e.value

\* ambient = ambient.ambient() for a subalgebra given as the ambient
NormalAmbient(os, amb) == IF amb = 0 THEN 0 ELSE os[amb].ambient

\* gens = tuple(ambient(gen) for gen in gens if not gen.is_zero()), and for
\* a subalgebra given as the ambient tuple(ambient.lift(gen) for gen in gens)
NormalGens(amb, shape, gens) ==
    LET gs == DropZeros(AsList(shape, gens))
        cs == [i \in 1..Len(gs) |-> Coerce(amb, gs[i])]
    IN  IF amb = 0 THEN cs
        ELSE [i \in 1..Len(cs) |-> Elt(0, Lift(cs[i]))]

\* [X.to_vector() for X in self.lie_algebra_generators()]
GenVectors(o) == [i \in 1..Len(o.gens) |-> o.gens[i].value]

\* the objects already made for this key
CacheHits(os, ambient, gens) ==
    {j \in 1..Len(os) : os[j].ambient = ambient /\ os[j].gens = gens}

NewObject(ambient, gens) ==
    [ambient |-> ambient, gens |-> gens, cached |-> FALSE, basis |-> <<>>,
     passes |-> 0]

\* the cache after the call, and the handle the call returns
CacheAfter(os, ambient, gens) ==
    IF CacheHits(os, ambient, gens) # {} THEN os
    ELSE Append(os, NewObject(ambient, gens))


Handle(os, ambient, gens) ==
    IF CacheHits(os, ambient, gens) # {}
    THEN CHOOSE j \in CacheHits(os, ambient, gens) : TRUE
    ELSE Len(os) + 1

ConstructRes(rg, os, amb, shape, items) ==
    LET gl == DropZeros(AsList(shape, items))
        fine == \A i \in 1..Len(gl) : CoerceOk(rg, os, amb, gl[i])
        gens == NormalGens(amb, shape, items)
    IN  [NoRes EXCEPT !.op = "construct", !.amb = amb, !.shape = shape,
                      !.items = items, !.ok = fine,
                      !.err = IF fine THEN "" ELSE "ValueError",
                      !.ret = IF fine
                              THEN Handle(os, NormalAmbient(os, amb), gens)
                              ELSE 0]

ConstructObjs(rg, os, amb, shape, items) ==
    LET gl == DropZeros(AsList(shape, items))
        fine == \A i \in 1..Len(gl) : CoerceOk(rg, os, amb, gl[i])
    IN  IF fine
        THEN CacheAfter(os, NormalAmbient(os, amb),
                        NormalGens(amb, shape, items))
        ELSE os

(***************************************************************************)
(* Inputs offered to the constructor.                                      *)
(***************************************************************************)
Units(A) == {VUnit(A.dim, i) : i \in 1..A.dim}

Pool(A) ==
    {VScale(RInt(c), VUnit(A.dim, i)) : c \in 1..MaxCoef, i \in 1..A.dim}
        \cup {VAdd(VUnit(A.dim, i), VUnit(A.dim, i + 1)) : i \in 1..(A.dim - 1)}

\* elements of L offered to retract, to the constructor and as elements
AmbVecs(A) == Pool(A) \cup {VZero(A.dim)}

ListsOver(S) ==
    {<<>>} \cup {<<a>> : a \in S} \cup {<<a, b>> : a \in S, b \in S}

\* [a, b, a + b]
Redundant(S) ==
    UNION {{<<a, b, VAdd(a, b)>> : b \in S \ {a}} : a \in S}

\* [c1*e1, ..., cn*en] with every ci either 1 or MaxCoef
Scaled(A) ==
    {[i \in 1..A.dim |-> VScale(RInt(c[i]), VUnit(A.dim, i))] :
        c \in [1..A.dim -> {1, MaxCoef}]}

AsItems(vs) == [i \in 1..Len(vs) |-> Elt(0, vs[i])]

\* the argument of the constructor: one bare element, or a list or tuple
Argument(sh, vs) == IF sh = "single" THEN Elt(0, vs[1]) ELSE AsItems(vs)

GenLists(A) ==
    ListsOver(AmbVecs(A)) \cup Redundant(Units(A)) \cup Scaled(A)

\* the first two generators of L
Firsts(A) == {VUnit(A.dim, 1), VUnit(A.dim, 1 + 1)}

\* lists of at most two different entries among them and zero, and [a, b, a+b]
CacheLists(A) ==
    LET S == Firsts(A) \cup {VZero(A.dim)}
    IN  {vs \in ListsOver(S) : Len(vs) = 2 => vs[1] # vs[2]}
            \cup Redundant(Firsts(A))

\* [e1, e2, c*e3, ..., c*en] with c = MaxCoef
Stretched(A) ==
    [i \in 1..A.dim |->
        IF i <= 1 + 1 THEN VUnit(A.dim, i)
        ELSE VScale(RInt(MaxCoef), VUnit(A.dim, i))]

\* one generator may be given bare, in a list or in a tuple
Shapes(vs) == IF Len(vs) = 1 THEN {"single", "list", "tuple"} ELSE {"list"}

(***************************************************************************)
(* Init: one subalgebra S = L.subalgebra(gens) has been constructed; its   *)
(* basis is not computed yet.                                              *)
(***************************************************************************)
Idle ==
    /\ pc = "idle"
    /\ cur = 0
    /\ sm = <<>>
    /\ d = 0
    /\ passes = 0

Init ==
    /\ \E a \in Ambients :
          /\ ring = a.ring
          /\ L = a.L
          /\ \E vs \in GenLists(a.L) : \E sh \in Shapes(vs) :
                /\ objs = ConstructObjs(a.ring, <<>>, 0, sh, Argument(sh, vs))
                /\ res = ConstructRes(a.ring, <<>>, 0, sh, Argument(sh, vs))
    /\ Idle

\* the cache specification starts with no subalgebra made
InitCache ==
    /\ \E a \in CacheAmbients :
          /\ ring = a.ring
          /\ L = a.L
    /\ objs = <<>>
    /\ res = NoRes
    /\ Idle

\* L.subalgebra(gens), or S.subalgebra(gens) for the subalgebra S = objs[amb]
Construct(amb, shape, items) ==
    /\ pc = "idle"
    /\ res.op = "none"
    /\ Len(objs) < MaxObjs
    /\ amb # 0 => objs[amb].cached
    /\ objs' = ConstructObjs(ring, objs, amb, shape, items)
    /\ res' = ConstructRes(ring, objs, amb, shape, items)
    /\ UNCHANGED <<ring, L, pc, cur, sm, d, passes>>

ConstructTop ==
    \E vs \in CacheLists(L) : \E sh \in Shapes(vs) :
        Construct(0, sh, Argument(sh, vs))

\* generators given as elements of L (converted by retract) or as a tail of
\* S.basis()
ConstructNested ==
    \E amb \in 1..Len(objs) :
        /\ objs[amb].cached
        /\ \/ \E vs \in CacheLists(L) : \E sh \in Shapes(vs) :
                 Construct(amb, sh, Argument(sh, vs))
           \/ Construct(amb, "list", AsItems(Stretched(L)))
           \/ \E k \in 1..(Len(objs[amb].basis) + 1) :
                 Construct(amb, "list",
                           [i \in 1..(Len(objs[amb].basis) + 1 - k) |->
                               Elt(amb, objs[amb].basis[i + k - 1])])

(***************************************************************************)
(* basis(): the closure loop, one action per step.                         *)
(***************************************************************************)
BasisEnter(i) ==
    /\ pc = "idle"
    /\ res.op = "none"
    /\ ~objs[i].cached
    /\ pc' = "loop"
    /\ cur' = i
    /\ sm' = InitialModule(ring, GenVectors(objs[i]))
    /\ d' = 0
    /\ passes' = 0
    /\ res' = [NoRes EXCEPT !.op = "basis", !.obj = i]
    /\ UNCHANGED <<ring, L, objs>>

BasisPass ==
    /\ pc = "loop"
    /\ LoopGoesOn(sm, d)
    /\ d' = Len(sm)
    /\ sm' = ClosurePass(ring, L, sm)
    /\ passes' = passes + 1
    /\ UNCHANGED <<ring, L, objs, pc, cur, res>>

\* Family(... for v in sm.echelonized_basis()), kept by @cached_method
BasisReturn ==
    /\ pc = "loop"
    /\ ~LoopGoesOn(sm, d)
    /\ objs' = [objs EXCEPT ![cur].cached = TRUE, ![cur].basis = sm,
                            ![cur].passes = passes]
    /\ pc' = "idle"
    /\ cur' = 0
    /\ sm' = <<>>
    /\ d' = 0
    /\ passes' = 0
    /\ UNCHANGED <<ring, L, res>>

Basis ==
    \/ \E i \in 1..Len(objs) : BasisEnter(i)
    \/ BasisPass
    \/ BasisReturn

(***************************************************************************)
(* Operations on a subalgebra and on its elements.  They read module(),    *)
(* so they run once basis() has been computed and cached.                  *)
(***************************************************************************)
\* a retract that tests x against the span of the generators, not module()
RetractGensOnly(rg, o, i, x) ==
    IF ~InModule(rg, Submodule(rg, GenVectors(o)), x)
    THEN [ok |-> FALSE, err |-> "ValueError", elt |-> Elt(0, <<>>)]
    ELSE [ok |-> TRUE, err |-> "", elt |-> Elt(i, x)]

\* retract(X): [ok, err, elt]
RetractOf(rg, o, i, x) ==
    IF ~Contains(rg, o, x)
    THEN [ok |-> FALSE, err |-> "ValueError", elt |-> Elt(0, <<>>)]
    ELSE [ok |-> TRUE, err |-> "", elt |-> Elt(i, x)]

\* Element.to_vector(): self.value.to_vector()
ToVectorOf(e) == e.value

\* the nonzero entries of to_vector() itself
MonomialCoefficientsAmbient(rg, o, e) ==
    LET v == ToVectorOf(e)
    IN  [k \in {j \in 0..(Len(v) - 1) : ~RIsZero(v[j + 1])} |-> v[k + 1]]

\* Element.monomial_coefficients(): a dictionary keyed from 0
MonomialCoefficientsOf(rg, o, e) ==
    LET v == CoordinateVector(rg, Module(o), ToVectorOf(e))
    IN  [k \in {j \in 0..(Len(v) - 1) : ~RIsZero(v[j + 1])} |-> v[k + 1]]

\* Element.__getitem__(i): a missing key of the dictionary raises KeyError,
\* which the handler for IndexError does not catch
GetItemOf(rg, o, e, k) ==
    LET mc == MonomialCoefficientsOf(rg, o, e)
    IN  IF k \in DOMAIN mc
        THEN [ok |-> TRUE, err |-> "", coef |-> mc[k]]
        ELSE [ok |-> FALSE, err |-> "KeyError", coef |-> RZero]

\* from_vector with the two tests in the other order
FromVectorOwnFirst(rg, A, o, i, v) ==
    IF Len(v) = Len(o.basis)
    THEN [ok |-> TRUE, err |-> "", elt |-> Elt(i, LinComb(v, o.basis, A.dim))]
    ELSE IF ~Contains(rg, o, v)
         THEN [ok |-> FALSE, err |-> "ValueError", elt |-> Elt(0, <<>>)]
         ELSE [ok |-> TRUE, err |-> "", elt |-> Elt(i, v)]

\* from_vector(v): ambient coordinates when len(v) is the ambient dimension,
\* else coordinates in basis()
FromVectorOf(rg, A, o, i, v) ==
    IF Len(v) = A.dim THEN RetractOf(rg, o, i, v)
    ELSE [ok |-> TRUE, err |-> "", elt |-> Elt(i, LinComb(v, o.basis, A.dim))]

\* the brackets of basis() with basis() only
IdealRowsOwn(A, o) == PairBrackets(A, o.basis)

\* the rows of b_mat for A = L: [b, ab] for b in basis(), ab in L.basis()
IdealRows(A, o) ==
    LET r == Len(o.basis)
        n == A.dim
    IN  [k \in 1..(r * n) |->
            Bracket(A, o.basis[((k - 1) \div n) + 1],
                    AmbientBasis(A)[((k - 1) % n) + 1])]

\* is_ideal(A) for A the subalgebra itself (A = i) or the ambient L (A = 0)
IsIdealOf(rg, A, o, i, a) ==
    IF a = i THEN TRUE
    ELSE IsSubmodule(rg, Submodule(rg, IdealRows(A, o)), Module(o))

\* the values of the elements of objs[i] that the operations are tried on
ElemVals(rg, A, o) ==
    {o.basis[j] : j \in 1..Len(o.basis)}
        \cup {x \in AmbVecs(A) : Contains(rg, o, x)}

\* coordinate vectors offered to from_vector
CoordVecs(n) == [1..n -> {RZero, ROne}]

\* no call is running and the result of the last one has been taken
Free ==
    /\ pc = "idle"
    /\ res.op = "none"

Ready(i) ==
    /\ Free
    /\ objs[i].cached

Retract(i, x) ==
    /\ Ready(i)
    /\ LET r == RetractOf(ring, objs[i], i, x)
       IN  res' = [NoRes EXCEPT !.op = "retract", !.obj = i, !.x = x,
                                !.ok = r.ok, !.err = r.err,
                                !.parent = r.elt.parent,
                                !.val = IF r.ok THEN Lift(r.elt) ELSE <<>>]
    /\ UNCHANGED <<ring, L, objs, pc, cur, sm, d, passes>>

\* Element._bracket_ on the basis elements number a and b
BracketElts(i, a, b) ==
    /\ Ready(i)
    /\ LET u == Elt(i, objs[i].basis[a])
           v == Elt(i, objs[i].basis[b])
           r == RetractOf(ring, objs[i], i, Bracket(L, u.value, v.value))
       IN  res' = [NoRes EXCEPT !.op = "bracket", !.obj = i, !.x = u.value,
                                !.y = v.value, !.ok = r.ok, !.err = r.err,
                                !.parent = r.elt.parent,
                                !.val = IF r.ok THEN Lift(r.elt) ELSE <<>>]
    /\ UNCHANGED <<ring, L, objs, pc, cur, sm, d, passes>>

IsIdeal(i, a) ==
    /\ Ready(i)
    /\ res' = [NoRes EXCEPT !.op = "is_ideal", !.obj = i, !.amb = a,
                            !.flag = IsIdealOf(ring, L, objs[i], i, a)]
    /\ UNCHANGED <<ring, L, objs, pc, cur, sm, d, passes>>

ToVector(i, x) ==
    /\ Ready(i)
    /\ res' = [NoRes EXCEPT !.op = "to_vector", !.obj = i, !.x = x,
                            !.val = ToVectorOf(Elt(i, x))]
    /\ UNCHANGED <<ring, L, objs, pc, cur, sm, d, passes>>

MonomialCoefficients(i, x) ==
    /\ Ready(i)
    /\ res' = [NoRes EXCEPT !.op = "monomial_coefficients", !.obj = i,
                            !.x = x,
                            !.mc = MonomialCoefficientsOf(ring, objs[i],
                                                          Elt(i, x))]
    /\ UNCHANGED <<ring, L, objs, pc, cur, sm, d, passes>>

GetItem(i, x, k) ==
    /\ Ready(i)
    /\ LET r == GetItemOf(ring, objs[i], Elt(i, x), k)
       IN  res' = [NoRes EXCEPT !.op = "getitem", !.obj = i, !.x = x,
                                !.k = k, !.ok = r.ok, !.err = r.err,
                                !.coef = r.coef]
    /\ UNCHANGED <<ring, L, objs, pc, cur, sm, d, passes>>

FromVector(i, v) ==
    /\ Ready(i)
    /\ LET r == FromVectorOf(ring, L, objs[i], i, v)
       IN  res' = [NoRes EXCEPT !.op = "from_vector", !.obj = i, !.x = v,
                                !.ok = r.ok, !.err = r.err,
                                !.parent = r.elt.parent,
                                !.val = IF r.ok THEN Lift(r.elt) ELSE <<>>]
    /\ UNCHANGED <<ring, L, objs, pc, cur, sm, d, passes>>

Operations ==
    \E i \in 1..Len(objs) :
        \/ \E x \in AmbVecs(L) : Retract(i, x)
        \/ \E a \in 1..Len(objs[i].basis) : \E b \in 1..Len(objs[i].basis) :
              BracketElts(i, a, b)
        \/ \E a \in {0, i} : IsIdeal(i, a)
        \/ \E x \in ElemVals(ring, L, objs[i]) :
              \/ ToVector(i, x)
              \/ MonomialCoefficients(i, x)
              \/ \E k \in 0..L.dim : GetItem(i, x, k)
        \/ \E v \in CoordVecs(Len(objs[i].basis)) \cup CoordVecs(L.dim) :
              FromVector(i, v)

\* the caller takes the result of the finished call
Return ==
    /\ pc = "idle"
    /\ res.op # "none"
    /\ res' = NoRes
    /\ UNCHANGED <<ring, L, objs, pc, cur, sm, d, passes>>

Next == Basis \/ Operations \/ Return
NextCache == ConstructTop \/ ConstructNested \/ Basis \/ Return

Spec == Init /\ [][Next]_vars
SpecCache == InitCache /\ [][NextCache]_vars

\* basis() alone, called on the subalgebra just constructed; the loop is
\* sequential code, so a pass or the return that can be taken is taken.
\* PassFair is WF_vars(BasisPass) with ENABLED <<BasisPass>>_vars written
\* out: a pass always changes passes, so it is enabled exactly when the
\* loop test holds.
NextLoop == Basis \/ Return
PassFair ==
    []<>~(pc = "loop" /\ LoopGoesOn(sm, d)) \/ []<><<BasisPass>>_vars
SpecLoop ==
    Init /\ [][NextLoop]_vars /\ PassFair /\ WF_vars(BasisReturn)

(***************************************************************************)
(* Properties.                                                             *)
(***************************************************************************)
\* v lies in the module spanned by the echelonized basis B: adding v to the
\* spanning set leaves the echelonized basis as it is
InSpan(rg, B, v) == Submodule(rg, B \o <<v>>) = B

SubmoduleOf(rg, B, N) == \A i \in 1..Len(B) : InSpan(rg, N, B[i])

BracketClosed(rg, A, B) ==
    \A i \in 1..Len(B) : \A j \in 1..Len(B) :
        InSpan(rg, B, Bracket(A, B[i], B[j]))

\* the submodules the minimality of a closure is tested against: those
\* spanned by a list of scaled basis vectors or by a short list of vectors
Candidates(rg, A) ==
    {Submodule(rg, vs) : vs \in Scaled(A) \cup ListsOver(Pool(A))}

CachedObjs == {i \in 1..Len(objs) : objs[i].cached}

\* C1: the module of a computed subalgebra is the smallest bracket-closed
\* submodule containing the generators: it contains every generator, it is
\* closed under the ambient bracket, and it lies in every bracket-closed
\* submodule that contains the generators.
C1_SmallestClosedSubmodule ==
    \A i \in CachedObjs :
        LET o == objs[i]
        IN  /\ \A g \in 1..Len(o.gens) :
                  InSpan(ring, Module(o), GenVectors(o)[g])
            /\ BracketClosed(ring, L, Module(o))
            /\ \A N \in Candidates(ring, L) :
                  (/\ \A g \in 1..Len(o.gens) :
                         InSpan(ring, N, GenVectors(o)[g])
                   /\ BracketClosed(ring, L, N))
                      => SubmoduleOf(ring, Module(o), N)

\* C2: the bracket of two basis elements of a computed subalgebra never
\* raises: the retract inside _bracket_ succeeds.
C2_BracketNeverRaises ==
    res.op = "bracket" => res.ok /\ res.err = ""

\* C3: retract(x) succeeds exactly when the coordinate vector of x lies in
\* module(), and then lift(retract(x)) = x; otherwise it raises ValueError
\* and returns no element.
C3_RetractIffInModule ==
    res.op = "retract" =>
        LET o == objs[res.obj]
        IN  /\ res.ok <=> InSpan(ring, Module(o), res.x)
            /\ res.ok => /\ res.val = res.x
                         /\ res.parent = res.obj
                         /\ res.err = ""
            /\ ~res.ok => /\ res.err = "ValueError"
                          /\ res.val = <<>>
                          /\ res.parent = 0

\* a nonzero element of a proper subalgebra is retracted
C3_Witness ==
    /\ res.op = "retract"
    /\ res.ok
    /\ ~VIsZero(res.x)
    /\ Len(objs[res.obj].basis) < L.dim
    /\ res.val = res.x

\* C10: e[i] never fails: it is the i-th coordinate of e in basis() when
\* that is nonzero, and the zero of the ring for every other index, those
\* out of range included.
C10_GetItemNeverFails ==
    res.op = "getitem" =>
        LET o == objs[res.obj]
            c == CoordinateVector(ring, Module(o), res.x)
        IN  /\ res.ok
            /\ res.coef = IF res.k + 1 \in 1..Len(c) THEN c[res.k + 1]
                          ELSE RZero

\* the basis of objs[res.obj] has just been computed
BasisDone == res.op = "basis" /\ pc = "idle"

\* C4: the module and the basis do not depend on the order or redundancy
\* of the generators: [a, b], [b, a] and [a, b, a + b] give the same
\* module() and the same basis() sequence.
C4_OrderAndRedundancy ==
    BasisDone /\ Len(objs[res.obj].gens) = 2 =>
        LET o == objs[res.obj]
            a == GenVectors(o)[1]
            b == GenVectors(o)[2]
        IN  /\ o.basis = BasisOf(ring, L, <<b, a>>)
            /\ o.basis = BasisOf(ring, L, <<a, b, VAdd(a, b)>>)
            /\ Module(o) = Submodule(ring, BasisOf(ring, L, <<b, a>>))

\* two different generators whose closure is larger than their span
C4_Witness ==
    /\ BasisDone
    /\ Len(objs[res.obj].gens) = 2
    /\ objs[res.obj].gens[1] # objs[res.obj].gens[2]
    /\ Len(objs[res.obj].basis) > 2
    /\ objs[res.obj].basis =
          BasisOf(ring, L, <<objs[res.obj].gens[2].value,
                             objs[res.obj].gens[1].value>>)

Dense(mc, r) == [j \in 1..r |-> IF j - 1 \in DOMAIN mc THEN mc[j - 1] ELSE RZero]

\* C8 as claimed: to_vector(e) is the coordinate vector of e in the basis
\* of S: it has length dimension(S), the sum of to_vector(e)[i] * basis()[i]
\* is lift(e), and monomial_coefficients(e) is the map of its nonzero
\* entries.
C8_OwnCoordinates ==
    /\ res.op = "to_vector" =>
          LET o == objs[res.obj]
          IN  /\ Len(res.val) = Len(o.basis)
              /\ LinComb(res.val, o.basis, L.dim) = res.x
    /\ res.op = "monomial_coefficients" =>
          LET o == objs[res.obj]
              v == ToVectorOf(Elt(res.obj, res.x))
          IN  /\ DOMAIN res.mc = {k \in 0..(Len(v) - 1) : ~RIsZero(v[k + 1])}
              /\ \A k \in DOMAIN res.mc : res.mc[k] = v[k + 1]

\* C8 as amended: to_vector(e) is the coordinate vector of lift(e) in the
\* ambient basis (its length is the ambient dimension);
\* monomial_coefficients(e) is the map of the nonzero entries of the
\* coordinate vector c of e in basis(), the vector of length dimension(S)
\* with lift(e) the sum of c[i] * basis()[i].
C8_AmbientVectorOwnCoefficients ==
    /\ res.op = "to_vector" =>
          /\ Len(res.val) = L.dim
          /\ res.val = res.x
    /\ res.op = "monomial_coefficients" =>
          LET o == objs[res.obj]
              r == Len(o.basis)
          IN  /\ DOMAIN res.mc \subseteq 0..(r - 1)
              /\ \A k \in DOMAIN res.mc : ~RIsZero(res.mc[k])
              /\ LinComb(Dense(res.mc, r), o.basis, L.dim) = res.x
              /\ ring = "ZZ" => \A k \in DOMAIN res.mc : RIsInt(res.mc[k])

\* the coefficients of an element whose coordinates in basis() differ from
\* its ambient coordinates
C8_Witness ==
    /\ res.op = "monomial_coefficients"
    /\ DOMAIN res.mc # {}
    /\ \E k \in DOMAIN res.mc : res.mc[k] # res.x[k + 1]
    /\ LinComb(Dense(res.mc, Len(objs[res.obj].basis)), objs[res.obj].basis,
               L.dim) = res.x

\* C9 as claimed: from_vector(v) for a vector v of length dimension(S) is
\* the element with coordinates v in basis(), the sum of v[i] * basis()[i];
\* a vector of the ambient dimension is passed to retract.
C9_OwnLengthIsOwnCoordinates ==
    res.op = "from_vector" =>
        LET o == objs[res.obj]
        IN  /\ Len(res.x) = Len(o.basis) =>
                  /\ res.ok
                  /\ res.val = LinComb(res.x, o.basis, L.dim)
            /\ Len(res.x) = L.dim /\ Len(res.x) # Len(o.basis) =>
                  /\ res.ok <=> InSpan(ring, Module(o), res.x)
                  /\ res.ok => res.val = res.x

\* C9 as amended: a vector of the ambient dimension is always taken as
\* ambient coordinates and passed to retract, also when dimension(S) is the
\* ambient dimension; a vector of length dimension(S), when that is not
\* the ambient dimension, gives the sum of v[i] * basis()[i].
C9_AmbientLengthFirst ==
    res.op = "from_vector" =>
        LET o == objs[res.obj]
        IN  /\ Len(res.x) = L.dim =>
                  /\ res.ok <=> InSpan(ring, Module(o), res.x)
                  /\ res.ok => res.val = res.x /\ res.parent = res.obj
                  /\ ~res.ok => res.err = "ValueError"
            /\ Len(res.x) = Len(o.basis) /\ Len(res.x) # L.dim =>
                  /\ res.ok
                  /\ res.parent = res.obj
                  /\ res.val = LinComb(res.x, o.basis, L.dim)

\* a nonzero vector of length dimension(S) < dim(L) is read in basis(), and
\* gives an element that is not one of the ambient basis
C9_Witness ==
    /\ res.op = "from_vector"
    /\ res.ok
    /\ Len(res.x) = Len(objs[res.obj].basis)
    /\ Len(res.x) < L.dim
    /\ ~VIsZero(res.x)
    /\ res.val = LinComb(res.x, objs[res.obj].basis, L.dim)
    /\ \E k \in 1..Len(res.x) : res.val[k] # res.x[k]

\* the generators a call of the constructor asks for: its nonzero
\* arguments in the order given, as coordinate vectors
RECURSIVE NonzeroValues(_)
NonzeroValues(items) ==
    IF Len(items) = 0 THEN <<>>
    ELSE IF VIsZero(Head(items).value) THEN NonzeroValues(Tail(items))
    ELSE <<Head(items).value>> \o NonzeroValues(Tail(items))

AskedFor(r) ==
    IF r.shape = "single" THEN NonzeroValues(<<r.items>>)
    ELSE NonzeroValues(r.items)

Constructed == res.op = "construct" /\ res.ok

\* C5 as claimed: construction calls whose generator lists span the same
\* submodule return the same cached object: no two objects of the cache
\* span the same submodule.
C5_SameSpanSameObject ==
    \A i \in 1..Len(objs) : \A j \in 1..Len(objs) :
        Submodule(ring, GenVectors(objs[i]))
            = Submodule(ring, GenVectors(objs[j])) => i = j

\* C5 as amended: construction calls on the same top-level ambient whose
\* generator lists are the same once a bare generator is put in a list and
\* the zero entries are dropped (the same generators in the same order)
\* return the same cached object, with these generators as gens(): the
\* cache holds one object per generator tuple, and a call returns the
\* object of the tuple it asks for.
C5_SameTupleSameObject ==
    /\ \A i \in 1..Len(objs) : \A j \in 1..Len(objs) :
          (objs[i].ambient = objs[j].ambient /\ objs[i].gens = objs[j].gens)
              => i = j
    /\ Constructed =>
          /\ res.ret \in 1..Len(objs)
          /\ GenVectors(objs[res.ret]) = AskedFor(res)

\* a second call, with a zero among its generators, returns the object
\* made before
C5_Witness ==
    /\ Constructed
    /\ res.amb = 0
    /\ res.shape = "list"
    /\ Len(res.items) = 2
    /\ \E k \in 1..2 : VIsZero(res.items[k].value)
    /\ Len(objs) = 1
    /\ res.ret = 1
    /\ objs[1].cached
    /\ Len(objs[1].gens) = 1

\* the closure in A of the submodule with basis B: brackets are added until
\* the submodule no longer changes
RECURSIVE Closure(_, _, _)
Closure(rg, A, B) ==
    LET N == Submodule(rg, B \o PairBrackets(A, B))
    IN  IF N = B THEN B ELSE Closure(rg, A, N)

\* C6: nesting is flattened: whatever chain of subalgebra-of-subalgebra
\* constructions made an object, its ambient() is L, its gens() are
\* elements of L, the lifted generators of the last call, and its module()
\* is the closure in L of these generators.
C6_NestingFlattened ==
    /\ \A i \in 1..Len(objs) :
          /\ objs[i].ambient = 0
          /\ \A g \in 1..Len(objs[i].gens) :
                /\ objs[i].gens[g].parent = 0
                /\ Len(objs[i].gens[g].value) = L.dim
          /\ objs[i].cached =>
                Module(objs[i]) =
                    Closure(ring, L, Submodule(ring, GenVectors(objs[i])))
    /\ Constructed /\ res.amb # 0 =>
          GenVectors(objs[res.ret]) = AskedFor(res)

\* what holds of the candidate submodule while the loop runs and of the
\* number of passes a finished loop has made
LoopBounded ==
    /\ pc = "loop" =>
          /\ Len(sm) <= L.dim
          /\ passes <= L.dim
          /\ passes = 0 => d = 0
          /\ passes >= 1 => (d >= 1 /\ Len(sm) >= d)
          /\ Len(objs[cur].gens) = 0 => (passes = 0 /\ Len(sm) = 0)
    /\ \A i \in CachedObjs :
          /\ objs[i].passes <= L.dim
          /\ Len(objs[i].gens) = 0 => objs[i].passes = 0

\* a pass does not lower the dimension and keeps it within n, the pass
\* before another pass has raised it, and the pass before the return has not
PassesGrow ==
    /\ BasisPass =>
          /\ Len(sm') >= Len(sm)
          /\ Len(sm') <= L.dim
          /\ passes >= 1 => Len(sm) > d
    /\ (BasisReturn /\ passes >= 1) => Len(sm) = d

\* C11: the closure loop of basis() terminates: the dimension of the
\* candidate submodule never decreases from pass to pass, strictly increases
\* in every pass but the last, never exceeds n = dim L, and the loop makes at
\* most n passes, none for an empty or all-zero generator list.
C11_LoopTerminates ==
    /\ []LoopBounded
    /\ [][PassesGrow]_vars
    /\ (pc = "loop") ~> (pc = "idle")

\* three passes over an algebra of dimension 4: two have raised the
\* dimension, from 2 to 4, and the third has not
C11_Witness ==
    /\ pc = "loop"
    /\ passes = 3
    /\ L.dim = 4
    /\ Len(objs[cur].gens) = 2
    /\ Len(sm) = 4
    /\ d = 4
====
